---- MODULE Spec2Model ----
(***************************************************************************)
(* A state-machine model of plugin_proposal/lib/src/default_implementation *)
(* .cpp: the zenoh-backed Session, Publisher, Subscriber, RpcClient and    *)
(* RpcServer implementations of the pluggable transport API.               *)
(*                                                                         *)
(* Fifo<T> and ThreadPool come from Utils.hpp, which is not part of the    *)
(* available sources; they are modelled from the written specification     *)
(* (sections 4.1 and 4.2) and marked as such.                              *)
(***************************************************************************)
EXTENDS Naturals, Integers, Sequences, FiniteSets, TLC

\* ------------------------------------------------------------------ bounds
NWorkers == 2
MaxSamples == 4
MaxQueries == 3
MaxReplies == 2
MaxSends == 2

Workers == 1..NWorkers
SampleIds == 1..MaxSamples
QueryIds == 1..MaxQueries

\* ------------------------------------------------------------------ data
EmptyBytes == ""

Message(p, a) == [payload |-> p, attributes |-> a]

\* A backend attachment: absent, or a byte map holding the keys in `keys`.
NoAttachment == [present |-> FALSE, keys |-> {}, map |-> [attributes |-> EmptyBytes]]
AttachmentOf(m) == [present |-> TRUE, keys |-> DOMAIN m, map |-> m]
EmptyAttachment == [present |-> TRUE, keys |-> {}, map |-> [attributes |-> EmptyBytes]]

\* z_check(attachment)
AttachmentCheck(att) == att.present

\* z_attachment_get / Attachment::get: the value stored under key, or the
\* null (empty) byte slice when the attachment or the key is absent.
AttachmentGet(att, key) ==
    IF att.present /\ key \in att.keys THEN att.map[key] ELSE EmptyBytes

ListeningTopic == "a/*"

\* The samples the backend may deliver to the subscription.
SampleValues ==
    { [keyexpr |-> "a/b", payload |-> "x", attachment |-> AttachmentOf([attributes |-> "m"])],
      [keyexpr |-> "a/c", payload |-> "y", attachment |-> EmptyAttachment] }

\* The queries the backend may deliver to the queryable.
QueryValues ==
    { [keyexpr |-> "svc", payload |-> "abc", attachment |-> AttachmentOf([attributes |-> "m"])],
      [keyexpr |-> "svc", payload |-> "q", attachment |-> NoAttachment] }

\* What the user's RpcServerCallback may return: nothing, or a reply Message.
NoResult == [has |-> FALSE, message |-> Message(EmptyBytes, EmptyBytes)]
SomeResult(m) == [has |-> TRUE, message |-> m]
CallbackResults == { NoResult, SomeResult(Message("cba", "r")) }

\* The replies the backend may yield on an RpcClient's reply channel.
ReplyValues ==
    { [ok |-> TRUE, keyexpr |-> "svc", payload |-> "cba", attachment |-> AttachmentOf([attributes |-> "r"])],
      [ok |-> TRUE, keyexpr |-> "svc/2", payload |-> "zz", attachment |-> NoAttachment],
      [ok |-> FALSE, keyexpr |-> "", payload |-> "Timeout", attachment |-> NoAttachment] }

VARIABLES
    crashed,          \* the process was terminated (std::terminate / abort)
    sessConn,         \* SessionImpl::session: "unopened", "open", "closed"
    sessRefs,         \* use count of the shared_ptr<SessionImpl>
    userHolds,        \* the application still holds its shared_ptr to the session
    subPc,            \* SubscriberImpl: construction / destruction position
    subDeclared,      \* the backend subscription (SubscriberImpl::handle) is registered
    subFifo,          \* SubscriberImpl::fifo contents
    subFifoState,     \* "open", "exited" (after fifo.exit()), "destroyed"
    subCallbackAlive, \* SubscriberImpl::callback has not been destroyed
    subW,             \* SubscriberImpl::pool: each worker thread's position and ptr
    subSamples,       \* the samples the backend handed to handler(), in order
    subCalls,         \* per sample: the invocations of the user callback for it
    rpcPc,            \* RpcServerImpl: construction / destruction position
    rpcDeclared,      \* the backend queryable (RpcServerImpl::qable) is registered
    rpcFifo,          \* RpcServerImpl::fifo contents
    rpcFifoState,     \* "open", "exited", "destroyed"
    rpcCallbackAlive, \* RpcServerImpl::callback has not been destroyed
    rpcW,             \* RpcServerImpl::pool: each worker's position, ptr and results
    rpcQueries,       \* the queries the backend handed to handler(), in order
    rpcClones,        \* per query: number of z_query_clone calls
    rpcDrops,         \* per query: number of z_query_drop calls on its clone
    rpcCalls,         \* per query: the invocations of the user callback
    rpcReturned,      \* per query: what those invocations returned
    rpcReplies,       \* per query: the z_query_reply calls made while processing it
    rpcErrors,        \* the queries for which a processing error was reported
    pubPc,            \* PublisherImpl: construction / destruction position
    pubDeclared,      \* the backend publisher (PublisherImpl::handle) is declared
    cliPc,            \* RpcClientImpl: construction / call / destruction position
    cliChannel,       \* RpcClientImpl::channel exists and was not dropped
    cliPlan,          \* the replies the backend yields for the query, in order
    cliSent,          \* how many of them it has put on the channel
    cliClosed,        \* the backend closed the channel (query finished or timed out)
    cliTaken,         \* how many replies operator() received from the channel
    cliResult,        \* what operator() returned
    pubSends,         \* PublisherImpl::operator(): one record per call, in order
    mapsNew,          \* number of z_bytes_map_new calls (attachment maps created)
    mapsDropped,      \* number of those maps released with z_drop
    declareCalls      \* per kind of child: the backend's answers to its declaration calls

sessVars == <<sessConn, sessRefs, userHolds>>
subVars == <<subPc, subDeclared, subFifo, subFifoState, subCallbackAlive, subW,
             subSamples, subCalls>>
rpcVars == <<rpcPc, rpcDeclared, rpcFifo, rpcFifoState, rpcCallbackAlive, rpcW,
             rpcQueries, rpcClones, rpcDrops, rpcCalls, rpcReturned, rpcReplies,
             rpcErrors>>
pubVars == <<pubPc, pubDeclared, pubSends>>
cliVars == <<cliPc, cliChannel, cliPlan, cliSent, cliClosed, cliTaken, cliResult>>
backendVars == <<mapsNew, mapsDropped, declareCalls>>
vars == <<crashed, sessVars, subVars, rpcVars, pubVars, cliVars, backendVars>>

\* ------------------------------------------------------------ Session
\* Releasing one shared_ptr<SessionImpl>: the last release destroys the
\* SessionImpl, whose zenohc::Session member closes the connection.
SessionRelease ==
    /\ sessRefs' = sessRefs - 1
    /\ sessConn' = IF sessRefs - 1 = 0 THEN "closed" ELSE sessConn

\* Mutant: the child keeps a plain pointer instead of sharing ownership.
SessionBorrow ==
    /\ sessRefs' = sessRefs
    /\ sessConn' = sessConn

SessionAcquire ==
    /\ sessRefs' = sessRefs + 1
    /\ sessConn' = sessConn

SessionOpen ==
    /\ ~crashed /\ sessConn = "unopened"
    /\ \E ok \in BOOLEAN :
         IF ok THEN /\ sessConn' = "open"
                    /\ sessRefs' = 1
                    /\ userHolds' = TRUE
               ELSE /\ sessConn' = "failed"
                    /\ UNCHANGED <<sessRefs, userHolds>>

\* The application drops its own shared_ptr to the session.
UserReleaseSession ==
    /\ ~crashed /\ userHolds
    /\ userHolds' = FALSE
    /\ SessionRelease

\* ------------------------------------------------------------ Fifo<T>
\* push(item): enqueue. After exit() delivery is not guaranteed: the item
\* is either kept in the queue or dropped. The set of possible contents.
FifoPush(q, st, item) ==
    IF st = "open" THEN { Append(q, item) } ELSE { q, Append(q, item) }

\* pull() can return: the queue holds an item, or exit() was called.
FifoPullReady(q, st) == st = "exited" \/ (st = "open" /\ q # <<>>)

\* pull() returns end-of-stream (nullptr) once exit() was called.
FifoPullEos(q, st) == st = "exited"

\* ------------------------------------------------------------ Subscriber
NoInfo == [sending_topic |-> "", message |-> Message(EmptyBytes, EmptyBytes)]
NoEvent == [id |-> 0, info |-> NoInfo]

\* Mutant: the attributes are read from the payload.
SubInfoPayloadTwice(sample) ==
    [ sending_topic |-> sample.keyexpr,
      message |-> Message(sample.payload, sample.payload) ]

\* SubInfo::SubInfo(const zenohc::Sample&)
SubInfo(sample) ==
    [ sending_topic |-> sample.keyexpr,
      message |-> Message(sample.payload,
                          AttachmentGet(sample.attachment, "attributes")) ]

SubIdle == [w \in Workers |-> [pc |-> "idle", ev |-> NoEvent]]

SubInit ==
    /\ subPc = "none"
    /\ subDeclared = FALSE
    /\ subFifo = <<>>
    /\ subFifoState = "open"
    /\ subCallbackAlive = FALSE
    /\ subW = SubIdle
    /\ subSamples = <<>>
    /\ subCalls = [i \in SampleIds |-> <<>>]

\* SubscriberImpl::SubscriberImpl, up to and including declare_subscriber:
\* the members are initialised, the session is shared, and the backend is
\* asked to register handler(). A rejected declaration throws out of the
\* constructor, which destroys the members built so far.
SubConstruct ==
    /\ UNCHANGED <<rpcVars, pubVars, cliVars>>
    /\ ~crashed /\ subPc = "none" /\ userHolds
    /\ \E ok \in BOOLEAN :
         /\ declareCalls' = [declareCalls EXCEPT !.sub = Append(@, ok)]
         /\ IF ok THEN /\ subPc' = "ctor_pool"
                       /\ subDeclared' = TRUE
                       /\ subCallbackAlive' = TRUE
                       /\ SessionAcquire
                  ELSE /\ subPc' = "failed"
                       /\ UNCHANGED <<subDeclared, subCallbackAlive, sessConn, sessRefs>>
    /\ UNCHANGED <<crashed, userHolds, subFifo, subFifoState, subW, subSamples, subCalls>>
    /\ UNCHANGED <<mapsNew, mapsDropped>>

\* ThreadPool(body, thread_count): starts thread_count threads, each running worker().
ThreadPoolStart(idle) == [x \in Workers |-> [idle[x] EXCEPT !.pc = "pull"]]

\* SubscriberImpl::SubscriberImpl, the pool = make_unique<ThreadPool>(...) line.
SubStartPool ==
    /\ UNCHANGED <<rpcVars, pubVars, cliVars, backendVars>>
    /\ ~crashed /\ subPc = "ctor_pool"
    /\ subPc' = "live"
    /\ subW' = ThreadPoolStart(subW)
    /\ UNCHANGED <<crashed, sessVars, subDeclared, subFifo, subFifoState,
                   subCallbackAlive, subSamples, subCalls>>

\* Mutant: the handler hands the sample over only to a worker that is
\* waiting in pull() (no buffering while all workers are busy).
SubHandlerRendezvous ==
    /\ UNCHANGED <<rpcVars, pubVars, cliVars, backendVars>>
    /\ ~crashed /\ subDeclared
    /\ Len(subSamples) < MaxSamples
    /\ subFifo = <<>> /\ \E w \in Workers : subW[w].pc = "pull"
    /\ \E sample \in SampleValues :
         LET ev == [id |-> Len(subSamples) + 1, info |-> SubInfo(sample)] IN
         /\ subSamples' = Append(subSamples, sample)
         /\ subFifo' = Append(subFifo, ev)
    /\ UNCHANGED <<crashed, sessVars, subPc, subDeclared, subFifoState, subCallbackAlive,
                   subW, subCalls>>

\* SubscriberImpl::handler, run on the backend's delivery thread for one sample.
\* Pushing into a fifo that was already destroyed is a use after free: the
\* process is terminated or the item is lost.
SubHandler ==
    /\ UNCHANGED <<rpcVars, pubVars, cliVars, backendVars>>
    /\ ~crashed /\ subDeclared
    /\ Len(subSamples) < MaxSamples
    /\ \E sample \in SampleValues :
         LET ev == [id |-> Len(subSamples) + 1, info |-> SubInfo(sample)] IN
         /\ subSamples' = Append(subSamples, sample)
         /\ IF subFifoState = "destroyed"
               THEN /\ crashed' \in BOOLEAN
                    /\ subFifo' = subFifo
               ELSE /\ subFifo' \in FifoPush(subFifo, subFifoState, ev)
                    /\ crashed' = crashed
    /\ UNCHANGED <<sessVars, subPc, subDeclared, subFifoState, subCallbackAlive,
                   subW, subCalls>>

\* SubscriberImpl::worker: ptr = fifo.pull(); if (ptr == nullptr) return;
SubWorkerPull(w) ==
    /\ UNCHANGED <<rpcVars, pubVars, cliVars, backendVars>>
    /\ ~crashed /\ subW[w].pc = "pull"
    /\ FifoPullReady(subFifo, subFifoState)
    /\ IF FifoPullEos(subFifo, subFifoState)
          THEN /\ subW' = [subW EXCEPT ![w] = [pc |-> "done", ev |-> NoEvent]]
               /\ subFifo' = subFifo
          ELSE /\ subW' = [subW EXCEPT ![w] = [pc |-> "got", ev |-> Head(subFifo)]]
               /\ subFifo' = Tail(subFifo)
    /\ UNCHANGED <<crashed, sessVars, subPc, subDeclared, subFifoState,
                   subCallbackAlive, subSamples, subCalls>>

\* The arguments the worker passes to the user callback.
SubCallArgs(ev) ==
    [ source |-> ev.info.sending_topic, listening |-> ListeningTopic,
      message |-> ev.info.message ]

\* SubscriberImpl::worker: callback(ptr->sending_topic, listening_topic, ptr->message).
\* Calling a std::function that was already destroyed is undefined: the call
\* still runs on the stale object, or the process is terminated.
SubWorkerInvoke(w) ==
    /\ UNCHANGED <<rpcVars, pubVars, cliVars, backendVars>>
    /\ ~crashed /\ subW[w].pc = "got"
    /\ \/ /\ subCalls' = [subCalls EXCEPT ![subW[w].ev.id] = Append(@, SubCallArgs(subW[w].ev))]
          /\ subW' = [subW EXCEPT ![w].pc = "call"]
          /\ crashed' = crashed
       \/ /\ ~subCallbackAlive
          /\ crashed' = TRUE
          /\ UNCHANGED <<subCalls, subW>>
    /\ UNCHANGED <<sessVars, subPc, subDeclared, subFifo, subFifoState,
                   subCallbackAlive, subSamples>>

\* Mutant: the loop iterates again without pulling a new item.
SubCallbackReturnRetry(w) ==
    /\ UNCHANGED <<rpcVars, pubVars, cliVars, backendVars>>
    /\ ~crashed /\ subW[w].pc = "call"
    /\ subW' = [subW EXCEPT ![w].pc = "got"]
    /\ UNCHANGED <<crashed, sessVars, subPc, subDeclared, subFifo, subFifoState,
                   subCallbackAlive, subSamples, subCalls>>

\* The user callback runs to its end and returns; the worker loops back to
\* fifo.pull(). When the callback member was destroyed under the running
\* call, the callable executes on freed storage: the process is terminated,
\* or the call happens to return all the same.
SubCallbackReturn(w) ==
    /\ UNCHANGED <<rpcVars, pubVars, cliVars, backendVars>>
    /\ ~crashed /\ subW[w].pc = "call"
    /\ \/ /\ subW' = [subW EXCEPT ![w] = [pc |-> "pull", ev |-> NoEvent]]
          /\ crashed' = crashed
       \/ /\ ~subCallbackAlive
          /\ crashed' = TRUE
          /\ UNCHANGED subW
    /\ UNCHANGED <<sessVars, subPc, subDeclared, subFifo, subFifoState,
                   subCallbackAlive, subSamples, subCalls>>

\* Mutant: the destructor body also undeclares the subscription.
SubDestroyUndeclares ==
    /\ UNCHANGED <<rpcVars, pubVars, cliVars, backendVars>>
    /\ ~crashed /\ subPc = "live"
    /\ subPc' = "d_callback"
    /\ subFifoState' = "exited"
    /\ subDeclared' = FALSE
    /\ UNCHANGED <<crashed, sessVars, subFifo, subCallbackAlive,
                   subW, subSamples, subCalls>>

\* SubscriberImpl::~SubscriberImpl body: fifo.exit().
SubDestroy ==
    /\ UNCHANGED <<rpcVars, pubVars, cliVars, backendVars>>
    /\ ~crashed /\ subPc = "live"
    /\ subPc' = "d_callback"
    /\ subFifoState' = "exited"
    /\ UNCHANGED <<crashed, sessVars, subDeclared, subFifo, subCallbackAlive,
                   subW, subSamples, subCalls>>

\* Members are destroyed in reverse declaration order: callback first.
SubDtorCallback ==
    /\ UNCHANGED <<rpcVars, pubVars, cliVars, backendVars>>
    /\ ~crashed /\ subPc = "d_callback"
    /\ subPc' = "d_pool"
    /\ subCallbackAlive' = FALSE
    /\ UNCHANGED <<crashed, sessVars, subDeclared, subFifo, subFifoState,
                   subW, subSamples, subCalls>>

\* ~ThreadPool joins every thread: it returns once each worker() returned.
ThreadPoolJoined(w) == \A x \in Workers : w[x].pc = "done"

\* then pool (unique_ptr<ThreadPool>),
SubDtorPool ==
    /\ UNCHANGED <<rpcVars, pubVars, cliVars, backendVars>>
    /\ ~crashed /\ subPc = "d_pool"
    /\ ThreadPoolJoined(subW)
    /\ subPc' = "d_fifo"
    /\ UNCHANGED <<crashed, sessVars, subDeclared, subFifo, subFifoState,
                   subCallbackAlive, subW, subSamples, subCalls>>

\* then fifo (the items still queued are released with it),
SubDtorFifo ==
    /\ UNCHANGED <<rpcVars, pubVars, cliVars, backendVars>>
    /\ ~crashed /\ subPc = "d_fifo"
    /\ subPc' = "d_handle"
    /\ subFifoState' = "destroyed"
    /\ subFifo' = <<>>
    /\ UNCHANGED <<crashed, sessVars, subDeclared, subCallbackAlive, subW,
                   subSamples, subCalls>>

\* then handle (unique_ptr<zenohc::Subscriber>): the subscription is undeclared,
SubDtorHandle ==
    /\ UNCHANGED <<rpcVars, pubVars, cliVars, backendVars>>
    /\ ~crashed /\ subPc = "d_handle"
    /\ subPc' = "d_session"
    /\ subDeclared' = FALSE
    /\ UNCHANGED <<crashed, sessVars, subFifo, subFifoState, subCallbackAlive,
                   subW, subSamples, subCalls>>

\* and last session (shared_ptr<SessionImpl>).
SubDtorSession ==
    /\ UNCHANGED <<rpcVars, pubVars, cliVars, backendVars>>
    /\ ~crashed /\ subPc = "d_session"
    /\ subPc' = "gone"
    /\ SessionRelease
    /\ UNCHANGED <<crashed, userHolds, subDeclared, subFifo, subFifoState,
                   subCallbackAlive, subW, subSamples, subCalls>>

\* ------------------------------------------------------------ RpcServer
NoRpcEvent == [id |-> 0, keyexpr |-> "", message |-> Message(EmptyBytes, EmptyBytes),
               owned_query |-> 0]

\* Mutant: the constructor accepts a query without attachment.
RpcInfoAccepts(query) == FALSE

\* RpcInfo::RpcInfo throws "attachment is missing" unless z_check(attachment).
RpcInfoThrows(query) == ~AttachmentCheck(query.attachment)

\* RpcInfo::RpcInfo(const z_query_t*): the decoded event for query number id,
\* owning the clone of that query's handle.
RpcInfo(query, id) ==
    [ id |-> id,
      keyexpr |-> query.keyexpr,
      message |-> Message(query.payload, AttachmentGet(query.attachment, "attributes")),
      owned_query |-> id ]

\* Mutant: no destructor, the owned query is never dropped.
RpcInfoLeak(drops, evs) == drops

\* RpcInfo::~RpcInfo: z_query_drop(&owned_query), for every event in evs.
RpcInfoDestroy(drops, evs) ==
    [q \in QueryIds |-> drops[q] + Cardinality({e \in evs : e.owned_query = q})]

Range(seq) == { seq[i] : i \in DOMAIN seq }

RpcIdle == [w \in Workers |-> [pc |-> "idle", ev |-> NoRpcEvent, res |-> NoResult]]

RpcInit ==
    /\ rpcPc = "none"
    /\ rpcDeclared = FALSE
    /\ rpcFifo = <<>>
    /\ rpcFifoState = "open"
    /\ rpcCallbackAlive = FALSE
    /\ rpcW = RpcIdle
    /\ rpcQueries = <<>>
    /\ rpcClones = [q \in QueryIds |-> 0]
    /\ rpcDrops = [q \in QueryIds |-> 0]
    /\ rpcCalls = [q \in QueryIds |-> <<>>]
    /\ rpcReturned = [q \in QueryIds |-> <<>>]
    /\ rpcReplies = [q \in QueryIds |-> <<>>]
    /\ rpcErrors = {}

\* Mutant: the constructor does not test z_check(qable) and goes on to
\* start the pool.
RpcConstructUnchecked ==
    /\ UNCHANGED <<subVars, pubVars, cliVars>>
    /\ ~crashed /\ rpcPc = "none" /\ userHolds
    /\ \E ok \in BOOLEAN :
         /\ declareCalls' = [declareCalls EXCEPT !.rpc = Append(@, ok)]
         /\ rpcDeclared' = ok
    /\ rpcPc' = "ctor_pool"
    /\ rpcCallbackAlive' = TRUE
    /\ SessionAcquire
    /\ UNCHANGED <<crashed, userHolds, rpcFifo, rpcFifoState, rpcW, rpcQueries,
                   rpcClones, rpcDrops, rpcCalls, rpcReturned, rpcReplies, rpcErrors>>
    /\ UNCHANGED <<mapsNew, mapsDropped>>

\* RpcServerImpl::RpcServerImpl up to the z_check(qable) test: the session is
\* shared and the queryable declared; a rejected declaration throws.
RpcConstruct ==
    /\ UNCHANGED <<subVars, pubVars, cliVars>>
    /\ ~crashed /\ rpcPc = "none" /\ userHolds
    /\ \E ok \in BOOLEAN :
         /\ declareCalls' = [declareCalls EXCEPT !.rpc = Append(@, ok)]
         /\ IF ok THEN /\ rpcPc' = "ctor_pool"
                       /\ rpcDeclared' = TRUE
                       /\ rpcCallbackAlive' = TRUE
                       /\ SessionAcquire
                  ELSE /\ rpcPc' = "failed"
                       /\ UNCHANGED <<rpcDeclared, rpcCallbackAlive, sessConn, sessRefs>>
    /\ UNCHANGED <<crashed, userHolds, rpcFifo, rpcFifoState, rpcW, rpcQueries,
                   rpcClones, rpcDrops, rpcCalls, rpcReturned, rpcReplies, rpcErrors>>
    /\ UNCHANGED <<mapsNew, mapsDropped>>

\* RpcServerImpl::RpcServerImpl, the pool = make_unique<ThreadPool>(...) line.
RpcStartPool ==
    /\ UNCHANGED <<subVars, pubVars, cliVars, backendVars>>
    /\ ~crashed /\ rpcPc = "ctor_pool"
    /\ rpcPc' = "live"
    /\ rpcW' = ThreadPoolStart(rpcW)
    /\ UNCHANGED <<crashed, sessVars, rpcDeclared, rpcFifo, rpcFifoState,
                   rpcCallbackAlive, rpcQueries, rpcClones, rpcDrops, rpcCalls, rpcReturned,
                   rpcReplies, rpcErrors>>

\* RpcServerImpl::_handler / handler, run on the backend's delivery thread for
\* one query: fifo.push(make_shared<RpcInfo>(query)).
\*  - RpcInfo's constructor throws when the attachment is missing; nothing
\*    catches it, so the exception leaves the C callback: the process is
\*    terminated, or the backend's frames absorb it and the query is lost.
\*  - otherwise the handle is cloned and the event pushed; an event the fifo
\*    does not keep is destroyed at once, which drops its clone.
RpcHandler ==
    /\ UNCHANGED <<subVars, pubVars, cliVars, backendVars>>
    /\ ~crashed /\ rpcDeclared
    /\ Len(rpcQueries) < MaxQueries
    /\ \E query \in QueryValues :
         LET id == Len(rpcQueries) + 1
             ev == RpcInfo(query, id) IN
         /\ rpcQueries' = Append(rpcQueries, query)
         /\ IF RpcInfoThrows(query)
               THEN /\ crashed' \in BOOLEAN
                    /\ UNCHANGED <<rpcFifo, rpcClones, rpcDrops>>
               ELSE /\ rpcClones' = [rpcClones EXCEPT ![id] = @ + 1]
                    /\ IF rpcFifoState = "destroyed"
                          THEN /\ crashed' \in BOOLEAN
                               /\ UNCHANGED <<rpcFifo, rpcDrops>>
                          ELSE /\ rpcFifo' \in FifoPush(rpcFifo, rpcFifoState, ev)
                               /\ rpcDrops' = IF ev \in Range(rpcFifo')
                                                 THEN rpcDrops
                                                 ELSE RpcInfoDestroy(rpcDrops, {ev})
                               /\ crashed' = crashed
    /\ UNCHANGED <<sessVars, rpcPc, rpcDeclared, rpcFifoState, rpcCallbackAlive,
                   rpcW, rpcCalls, rpcReturned, rpcReplies, rpcErrors>>

\* RpcServerImpl::worker: ptr = fifo.pull(); if (ptr == nullptr) return;
RpcWorkerPull(w) ==
    /\ UNCHANGED <<subVars, pubVars, cliVars, backendVars>>
    /\ ~crashed /\ rpcW[w].pc = "pull"
    /\ FifoPullReady(rpcFifo, rpcFifoState)
    /\ IF FifoPullEos(rpcFifo, rpcFifoState)
          THEN /\ rpcW' = [rpcW EXCEPT ![w].pc = "done"]
               /\ rpcFifo' = rpcFifo
          ELSE /\ rpcW' = [rpcW EXCEPT ![w].pc = "got", ![w].ev = Head(rpcFifo)]
               /\ rpcFifo' = Tail(rpcFifo)
    /\ UNCHANGED <<crashed, sessVars, rpcPc, rpcDeclared, rpcFifoState,
                   rpcCallbackAlive, rpcQueries, rpcClones, rpcDrops, rpcCalls, rpcReturned,
                   rpcReplies, rpcErrors>>

\* The arguments the worker passes to the user callback.
RpcCallArgs(ev) == [keyexpr |-> ev.keyexpr, message |-> ev.message]

\* RpcServerImpl::worker: results = callback(ptr->keyexpr, ptr->message) is entered.
RpcWorkerInvoke(w) ==
    /\ UNCHANGED <<subVars, pubVars, cliVars, backendVars>>
    /\ ~crashed /\ rpcW[w].pc = "got"
    /\ \/ /\ rpcCalls' = [rpcCalls EXCEPT ![rpcW[w].ev.id] = Append(@, RpcCallArgs(rpcW[w].ev))]
          /\ rpcW' = [rpcW EXCEPT ![w].pc = "call"]
          /\ crashed' = crashed
       \/ /\ ~rpcCallbackAlive
          /\ crashed' = TRUE
          /\ UNCHANGED <<rpcCalls, rpcW>>
    /\ UNCHANGED <<sessVars, rpcPc, rpcDeclared, rpcFifo, rpcFifoState,
                   rpcCallbackAlive, rpcQueries, rpcClones, rpcDrops, rpcReturned,
                   rpcReplies, rpcErrors>>

\* Mutant: the worker gives up the event as soon as the callback returned,
\* before the reply is sent.
RpcCallbackReturnReleases(w) ==
    /\ UNCHANGED <<subVars, pubVars, cliVars, backendVars>>
    /\ ~crashed /\ rpcW[w].pc = "call"
    /\ \E res \in CallbackResults :
         /\ rpcW' = [rpcW EXCEPT ![w].res = res,
                                 ![w].pc = IF res.has THEN "reply" ELSE "release"]
         /\ rpcReturned' = [rpcReturned EXCEPT ![rpcW[w].ev.id] = Append(@, res)]
    /\ rpcDrops' = RpcInfoDestroy(rpcDrops, {rpcW[w].ev})
    /\ UNCHANGED <<crashed, sessVars, rpcPc, rpcDeclared, rpcFifo, rpcFifoState,
                   rpcCallbackAlive, rpcQueries, rpcClones, rpcCalls,
                   rpcReplies, rpcErrors>>

\* The user callback returns its optional<Message>; `if (results)` selects the
\* reply branch or the "no results to send" branch.  When the callback member
\* was destroyed under the running call, the callable executes on freed
\* storage: the process is terminated, or the call returns all the same.
RpcCallbackReturn(w) ==
    /\ UNCHANGED <<subVars, pubVars, cliVars, backendVars>>
    /\ ~crashed /\ rpcW[w].pc = "call"
    /\ \/ /\ \E res \in CallbackResults :
               /\ rpcW' = [rpcW EXCEPT ![w].res = res,
                                       ![w].pc = IF res.has THEN "reply" ELSE "release"]
               /\ rpcReturned' = [rpcReturned EXCEPT ![rpcW[w].ev.id] = Append(@, res)]
          /\ crashed' = crashed
       \/ /\ ~rpcCallbackAlive
          /\ crashed' = TRUE
          /\ UNCHANGED <<rpcW, rpcReturned>>
    /\ UNCHANGED <<sessVars, rpcPc, rpcDeclared, rpcFifo, rpcFifoState,
                   rpcCallbackAlive, rpcQueries, rpcClones, rpcDrops, rpcCalls,
                   rpcReplies, rpcErrors>>

\* Mutant: the reply echoes the request's message.
RpcReplyEcho(ev, res, rc) ==
    [ handle |-> ev.owned_query,
      keyexpr |-> ev.keyexpr,
      payload |-> ev.message.payload,
      attachment |-> AttachmentOf([attributes |-> ev.message.attributes]),
      rc |-> rc ]

\* The z_query_reply call of the worker: the loaned owned_query, the event's
\* key expression, the results' payload and, as attachment, its attributes.
\* rc is the backend's return code.
RpcReplyCall(ev, res, rc) ==
    [ handle |-> ev.owned_query,
      keyexpr |-> ev.keyexpr,
      payload |-> res.message.payload,
      attachment |-> AttachmentOf([attributes |-> res.message.attributes]),
      rc |-> rc ]

\* What the worker reports when z_query_reply returned rc: the return value
\* is discarded, so nothing is reported for any rc.
RpcReplyErrors(id, rc) == {}

\* The attachment map of one reply: created with z_bytes_map_new for
\* options.attachment, and not released before the iteration ends.
RpcReplyMaps == [new |-> 1, dropped |-> 0]

\* RpcServerImpl::worker, the `if (results)` branch.
RpcWorkerReply(w) ==
    /\ UNCHANGED <<subVars, pubVars, cliVars, declareCalls>>
    /\ mapsNew' = mapsNew + RpcReplyMaps.new
    /\ mapsDropped' = mapsDropped + RpcReplyMaps.dropped
    /\ ~crashed /\ rpcW[w].pc = "reply"
    /\ \E rc \in {0, -1} :
         LET ev == rpcW[w].ev IN
         /\ rpcReplies' = [rpcReplies EXCEPT ![ev.id] = Append(@, RpcReplyCall(ev, rpcW[w].res, rc))]
         /\ rpcErrors' = rpcErrors \cup RpcReplyErrors(ev.id, rc)
    /\ rpcW' = [rpcW EXCEPT ![w].pc = "release"]
    /\ UNCHANGED <<crashed, sessVars, rpcPc, rpcDeclared, rpcFifo, rpcFifoState,
                   rpcCallbackAlive, rpcQueries, rpcClones, rpcDrops, rpcCalls, rpcReturned>>

\* RpcServerImpl::worker, end of one loop iteration: ptr (the only owner of
\* the RpcInfo) goes out of scope, so ~RpcInfo drops the owned query.
RpcWorkerRelease(w) ==
    /\ UNCHANGED <<subVars, pubVars, cliVars, backendVars>>
    /\ ~crashed /\ rpcW[w].pc = "release"
    /\ rpcDrops' = RpcInfoDestroy(rpcDrops, {rpcW[w].ev})
    /\ rpcW' = [rpcW EXCEPT ![w] = [pc |-> "pull", ev |-> NoRpcEvent, res |-> NoResult]]
    /\ UNCHANGED <<crashed, sessVars, rpcPc, rpcDeclared, rpcFifo, rpcFifoState,
                   rpcCallbackAlive, rpcQueries, rpcClones, rpcCalls, rpcReturned, rpcReplies,
                   rpcErrors>>

\* RpcServerImpl::~RpcServerImpl body, first statement: fifo.exit().
RpcDestroy ==
    /\ UNCHANGED <<subVars, pubVars, cliVars, backendVars>>
    /\ ~crashed /\ rpcPc = "live"
    /\ rpcPc' = "d_undeclare"
    /\ rpcFifoState' = "exited"
    /\ UNCHANGED <<crashed, sessVars, rpcDeclared, rpcFifo, rpcCallbackAlive, rpcW,
                   rpcQueries, rpcClones, rpcDrops, rpcCalls, rpcReturned, rpcReplies, rpcErrors>>

\* ~RpcServerImpl body, second statement: z_undeclare_queryable(z_move(qable)).
RpcDtorUndeclare ==
    /\ UNCHANGED <<subVars, pubVars, cliVars, backendVars>>
    /\ ~crashed /\ rpcPc = "d_undeclare"
    /\ rpcPc' = "d_callback"
    /\ rpcDeclared' = FALSE
    /\ UNCHANGED <<crashed, sessVars, rpcFifo, rpcFifoState, rpcCallbackAlive, rpcW,
                   rpcQueries, rpcClones, rpcDrops, rpcCalls, rpcReturned, rpcReplies, rpcErrors>>

\* Members are then destroyed in reverse declaration order: callback,
RpcDtorCallback ==
    /\ UNCHANGED <<subVars, pubVars, cliVars, backendVars>>
    /\ ~crashed /\ rpcPc = "d_callback"
    /\ rpcPc' = "d_pool"
    /\ rpcCallbackAlive' = FALSE
    /\ UNCHANGED <<crashed, sessVars, rpcDeclared, rpcFifo, rpcFifoState, rpcW,
                   rpcQueries, rpcClones, rpcDrops, rpcCalls, rpcReturned, rpcReplies, rpcErrors>>

\* pool (joins the workers),
RpcDtorPool ==
    /\ UNCHANGED <<subVars, pubVars, cliVars, backendVars>>
    /\ ~crashed /\ rpcPc = "d_pool"
    /\ ThreadPoolJoined(rpcW)
    /\ rpcPc' = "d_fifo"
    /\ UNCHANGED <<crashed, sessVars, rpcDeclared, rpcFifo, rpcFifoState,
                   rpcCallbackAlive, rpcW, rpcQueries, rpcClones, rpcDrops, rpcCalls, rpcReturned,
                   rpcReplies, rpcErrors>>

\* fifo (every RpcInfo still queued is destroyed, dropping its clone),
RpcDtorFifo ==
    /\ UNCHANGED <<subVars, pubVars, cliVars, backendVars>>
    /\ ~crashed /\ rpcPc = "d_fifo"
    /\ rpcPc' = "d_session"
    /\ rpcFifoState' = "destroyed"
    /\ rpcFifo' = <<>>
    /\ rpcDrops' = RpcInfoDestroy(rpcDrops, Range(rpcFifo))
    /\ UNCHANGED <<crashed, sessVars, rpcDeclared, rpcCallbackAlive, rpcW,
                   rpcQueries, rpcClones, rpcCalls, rpcReturned, rpcReplies, rpcErrors>>

\* and session.
RpcDtorSession ==
    /\ UNCHANGED <<subVars, pubVars, cliVars, backendVars>>
    /\ ~crashed /\ rpcPc = "d_session"
    /\ rpcPc' = "gone"
    /\ SessionRelease
    /\ UNCHANGED <<crashed, userHolds, rpcDeclared, rpcFifo, rpcFifoState,
                   rpcCallbackAlive, rpcW, rpcQueries, rpcClones, rpcDrops, rpcCalls, rpcReturned,
                   rpcReplies, rpcErrors>>

RpcNext ==
    \/ RpcConstruct
    \/ RpcStartPool
    \/ RpcHandler
    \/ \E w \in Workers : RpcWorkerPull(w)
    \/ \E w \in Workers : RpcWorkerInvoke(w)
    \/ \E w \in Workers : RpcCallbackReturn(w)
    \/ \E w \in Workers : RpcWorkerReply(w)
    \/ \E w \in Workers : RpcWorkerRelease(w)
    \/ RpcDestroy
    \/ RpcDtorUndeclare
    \/ RpcDtorCallback
    \/ RpcDtorPool
    \/ RpcDtorFifo
    \/ RpcDtorSession

\* ------------------------------------------------------------ Publisher
PubInit ==
    /\ pubPc = "none"
    /\ pubDeclared = FALSE
    /\ pubSends = <<>>

\* PublisherImpl::PublisherImpl: share the session, declare the publisher,
\* throw "Cannot declare publisher" when the handle is not valid.
PubConstruct ==
    /\ UNCHANGED <<subVars, rpcVars, cliVars>>
    /\ ~crashed /\ pubPc = "none" /\ userHolds
    /\ \E ok \in BOOLEAN :
         /\ declareCalls' = [declareCalls EXCEPT !.pub = Append(@, ok)]
         /\ IF ok THEN /\ pubPc' = "live"
                       /\ pubDeclared' = TRUE
                       /\ SessionAcquire
                  ELSE /\ pubPc' = "failed"
                       /\ UNCHANGED <<pubDeclared, sessConn, sessRefs>>
    /\ UNCHANGED <<crashed, userHolds, pubSends>>
    /\ UNCHANGED <<mapsNew, mapsDropped>>

\* PublisherImpl::~PublisherImpl body: z_undeclare_publisher(&handle).
PubDestroy ==
    /\ UNCHANGED <<subVars, rpcVars, cliVars, backendVars>>
    /\ ~crashed /\ pubPc = "live"
    /\ pubPc' = "d_session"
    /\ pubDeclared' = FALSE
    /\ UNCHANGED <<crashed, sessVars, pubSends>>

\* then the session member is released.
PubDtorSession ==
    /\ UNCHANGED <<subVars, rpcVars, cliVars, backendVars>>
    /\ ~crashed /\ pubPc = "d_session"
    /\ pubPc' = "gone"
    /\ SessionRelease
    /\ UNCHANGED <<crashed, userHolds, pubDeclared, pubSends>>

\* The messages the application may publish.
SendMessages == { Message("x", "m"), Message("y", EmptyBytes) }

\* Mutant: the result of z_publisher_put is not looked at.
PublisherSendSilent(message, rc) ==
    [ message |-> message,
      puts |-> << [ payload |-> message.payload,
                    attachment |-> AttachmentOf([attributes |-> message.attributes]),
                    rc |-> rc ] >>,
      outcome |-> "returned",
      maps |-> [new |-> 1, dropped |-> 1] ]

\* PublisherImpl::operator()(message), where rc is what z_publisher_put
\* returns: the map for the attachment is created, put is called once with
\* the payload and the attributes as attachment, the map is dropped on both
\* paths, and a non-zero rc is thrown as "Cannot publish".
PublisherSend(message, rc) ==
    [ message |-> message,
      puts |-> << [ payload |-> message.payload,
                    attachment |-> AttachmentOf([attributes |-> message.attributes]),
                    rc |-> rc ] >>,
      outcome |-> IF rc # 0 THEN "threw" ELSE "returned",
      maps |-> [new |-> 1, dropped |-> 1] ]

\* One call of PublisherImpl::operator().
PubSend ==
    /\ UNCHANGED <<subVars, rpcVars, cliVars>>
    /\ ~crashed /\ pubPc = "live"
    /\ Len(pubSends) < MaxSends
    /\ \E message \in SendMessages, rc \in {0, -1} :
         LET out == PublisherSend(message, rc) IN
         /\ pubSends' = Append(pubSends, out)
         /\ mapsNew' = mapsNew + out.maps.new
         /\ mapsDropped' = mapsDropped + out.maps.dropped
    /\ UNCHANGED <<crashed, sessVars, pubPc, pubDeclared, declareCalls>>

PubNext ==
    \/ PubConstruct
    \/ PubDestroy
    \/ PubDtorSession

\* ------------------------------------------------------------ RpcClient
\* The reply sequences the backend may yield on one query's channel.
ReplyPlans ==
    UNION { [1..n -> ReplyValues] : n \in 0..MaxReplies }

\* tuple<string, Message> results, value-initialised.
EmptyResults == [topic |-> "", message |-> Message(EmptyBytes, EmptyBytes)]
NoOutcome == [kind |-> "none", results |-> EmptyResults, taken |-> 0]

CliInit ==
    /\ cliPc = "none"
    /\ cliChannel = FALSE
    /\ cliPlan = <<>>
    /\ cliSent = 0
    /\ cliClosed = FALSE
    /\ cliTaken = 0
    /\ cliResult = NoOutcome

\* The attachment map of the query: attrs = z_bytes_map_new() is handed to
\* z_get as opts.attachment and not released by the constructor.
RpcClientMaps == [new |-> 1, dropped |-> 0]

\* RpcClientImpl::RpcClientImpl: share the session, reject an invalid key
\* expression by throwing, else create the reply channel and issue z_get.
\* plan is what the backend will answer.
CliConstruct ==
    /\ UNCHANGED <<subVars, rpcVars, pubVars, declareCalls>>
    /\ ~crashed /\ cliPc = "none" /\ userHolds
    /\ \E valid \in BOOLEAN, plan \in ReplyPlans :
         IF valid THEN /\ cliPc' = "pending"
                       /\ cliChannel' = TRUE
                       /\ cliPlan' = plan
                       /\ SessionAcquire
                       /\ mapsNew' = mapsNew + RpcClientMaps.new
                       /\ mapsDropped' = mapsDropped + RpcClientMaps.dropped
                  ELSE /\ cliPc' = "failed"
                       /\ UNCHANGED <<cliChannel, cliPlan, sessConn, sessRefs,
                                      mapsNew, mapsDropped>>
    /\ UNCHANGED <<crashed, userHolds, cliSent, cliClosed, cliTaken, cliResult>>

\* The backend puts the next reply on the channel (z_owned_reply_channel_t.send).
CliBackendReply ==
    /\ UNCHANGED <<subVars, rpcVars, pubVars, backendVars>>
    /\ ~crashed /\ cliChannel /\ ~cliClosed
    /\ cliSent < Len(cliPlan)
    /\ cliSent' = cliSent + 1
    /\ UNCHANGED <<crashed, sessVars, cliPc, cliChannel, cliPlan, cliClosed, cliTaken,
                   cliResult>>

\* The backend finishes the query (all repliers answered, or the timeout
\* elapsed) and closes the channel.
CliBackendClose ==
    /\ UNCHANGED <<subVars, rpcVars, pubVars, backendVars>>
    /\ ~crashed /\ cliChannel /\ ~cliClosed
    /\ cliSent = Len(cliPlan)
    /\ cliClosed' = TRUE
    /\ UNCHANGED <<crashed, sessVars, cliPc, cliChannel, cliPlan, cliSent, cliTaken,
                   cliResult>>

\* Mutant: the loop has no break, so the last reply received overwrites the results.
RpcClientCallLast(replies) ==
    IF replies = <<>>
      THEN [kind |-> "return", results |-> EmptyResults, taken |-> 0]
      ELSE IF \A i \in DOMAIN replies : replies[i].ok
        THEN [kind |-> "return",
              results |-> [topic |-> replies[Len(replies)].keyexpr,
                           message |-> Message(replies[Len(replies)].payload,
                                       AttachmentGet(replies[Len(replies)].attachment, "attributes"))],
              taken |-> Len(replies)]
        ELSE [kind |-> "throw", results |-> EmptyResults, taken |-> 1]

\* RpcClientImpl::operator() on the replies the channel yields to it, in
\* order (the empty sequence: the channel closed without one). The loop
\* receives one reply; a null reply ends it with the untouched results, an
\* ok reply fills the results and breaks, any other reply throws.
RpcClientCall(replies) ==
    IF replies = <<>>
      THEN [kind |-> "return", results |-> EmptyResults, taken |-> 0]
      ELSE IF Head(replies).ok
        THEN [kind |-> "return",
              results |-> [topic |-> Head(replies).keyexpr,
                           message |-> Message(Head(replies).payload,
                                       AttachmentGet(Head(replies).attachment, "attributes"))],
              taken |-> 1]
        ELSE [kind |-> "throw", results |-> EmptyResults, taken |-> 1]

\* One call of operator(): z_call(channel.recv, &reply) blocks until the
\* channel holds a reply or is closed.
CliCall ==
    /\ UNCHANGED <<subVars, rpcVars, pubVars, backendVars>>
    /\ ~crashed /\ cliPc = "pending"
    /\ cliTaken < cliSent \/ cliClosed
    /\ LET out == RpcClientCall(SubSeq(cliPlan, cliTaken + 1, cliSent)) IN
         /\ cliResult' = out
         /\ cliTaken' = cliTaken + out.taken
         /\ cliPc' = IF out.kind = "throw" THEN "threw" ELSE "returned"
    /\ UNCHANGED <<crashed, sessVars, cliChannel, cliPlan, cliSent, cliClosed>>

\* RpcClientImpl::~RpcClientImpl body: z_drop(z_move(channel)).
CliDestroy ==
    /\ UNCHANGED <<subVars, rpcVars, pubVars, backendVars>>
    /\ ~crashed /\ cliPc \in {"pending", "returned", "threw"}
    /\ cliPc' = "d_session"
    /\ cliChannel' = FALSE
    /\ UNCHANGED <<crashed, sessVars, cliPlan, cliSent, cliClosed, cliTaken, cliResult>>

\* then the session member is released.
CliDtorSession ==
    /\ UNCHANGED <<subVars, rpcVars, pubVars, backendVars>>
    /\ ~crashed /\ cliPc = "d_session"
    /\ cliPc' = "gone"
    /\ SessionRelease
    /\ UNCHANGED <<crashed, userHolds, cliChannel, cliPlan, cliSent, cliClosed, cliTaken,
                   cliResult>>

CliNext ==
    \/ CliConstruct
    \/ CliBackendReply
    \/ CliBackendClose
    \/ CliCall
    \/ CliDestroy
    \/ CliDtorSession

SessInit ==
    /\ crashed = FALSE
    /\ sessConn = "unopened"
    /\ sessRefs = 0
    /\ userHolds = FALSE

\* No attachment map was created and nothing was declared yet.
BackendInit ==
    /\ mapsNew = 0
    /\ mapsDropped = 0
    /\ declareCalls = [pub |-> <<>>, sub |-> <<>>, rpc |-> <<>>]

SessNext ==
    \/ SessionOpen /\ UNCHANGED <<crashed, subVars, rpcVars, pubVars, cliVars, backendVars>>
    \/ UserReleaseSession /\ UNCHANGED <<crashed, subVars, rpcVars, pubVars, cliVars, backendVars>>

SubNext ==
    \/ SubConstruct
    \/ SubStartPool
    \/ SubHandler
    \/ \E w \in Workers : SubWorkerPull(w)
    \/ \E w \in Workers : SubWorkerInvoke(w)
    \/ \E w \in Workers : SubCallbackReturn(w)
    \/ SubDestroy
    \/ SubDtorCallback
    \/ SubDtorPool
    \/ SubDtorFifo
    \/ SubDtorHandle
    \/ SubDtorSession

SubSpecInit == SessInit /\ SubInit /\ RpcInit /\ PubInit /\ CliInit /\ BackendInit
SubSpecNext == SessNext \/ SubNext
SubSpec == SubSpecInit /\ [][SubSpecNext]_vars

RpcSpecInit == SessInit /\ SubInit /\ RpcInit /\ PubInit /\ CliInit /\ BackendInit
RpcSpecNext == SessNext \/ RpcNext
RpcSpec == RpcSpecInit /\ [][RpcSpecNext]_vars

\* The hand-off from the backend's delivery thread to the worker pool, for a
\* program that builds a Subscriber or an RpcServer on its session.
HandoffInit == SessInit /\ SubInit /\ RpcInit /\ PubInit /\ CliInit /\ BackendInit
HandoffNext ==
    \/ SessNext
    \/ (rpcPc = "none" /\ SubNext)
    \/ (subPc = "none" /\ RpcNext)
HandoffSpec == HandoffInit /\ [][HandoffNext]_vars

\* The Publisher alone: construction, sends, destruction.
PubSpecInit == SessInit /\ SubInit /\ RpcInit /\ PubInit /\ CliInit /\ BackendInit
PubSpecNext == SessNext \/ PubNext \/ PubSend
PubSpec == PubSpecInit /\ [][PubSpecNext]_vars

\* The RpcServer from construction on, for as long as it is not destroyed.
RpcRunNext ==
    \/ RpcConstruct
    \/ RpcStartPool
    \/ RpcHandler
    \/ \E w \in Workers : RpcWorkerPull(w)
    \/ \E w \in Workers : RpcWorkerInvoke(w)
    \/ \E w \in Workers : RpcCallbackReturn(w)
    \/ \E w \in Workers : RpcWorkerReply(w)
    \/ \E w \in Workers : RpcWorkerRelease(w)
\* The Subscriber likewise.
SubUseNext ==
    \/ SubConstruct
    \/ SubStartPool
    \/ SubHandler
    \/ \E w \in Workers : SubWorkerPull(w)
    \/ \E w \in Workers : SubWorkerInvoke(w)
    \/ \E w \in Workers : SubCallbackReturn(w)
\* A program that builds one child on its session, a Publisher, a Subscriber
\* or an RpcServer, and uses it without destroying it.
DeclInit == SessInit /\ SubInit /\ RpcInit /\ PubInit /\ CliInit /\ BackendInit
DeclNext ==
    \/ SessNext
    \/ (rpcPc = "none" /\ pubPc = "none" /\ SubUseNext)
    \/ (subPc = "none" /\ pubPc = "none" /\ RpcRunNext)
    \/ (subPc = "none" /\ rpcPc = "none" /\ (PubConstruct \/ PubSend))
DeclSpec == DeclInit /\ [][DeclNext]_vars

\* The RpcClient alone, over every reply sequence.
CliSpecInit == SessInit /\ SubInit /\ RpcInit /\ PubInit /\ CliInit /\ BackendInit
CliSpecNext == SessNext \/ CliNext
CliSpec == CliSpecInit /\ [][CliSpecNext]_vars

\* The lifetimes of a session and of one child of each kind, with no traffic.
LifeInit == SessInit /\ SubInit /\ RpcInit /\ PubInit /\ CliInit /\ BackendInit
LifeNext ==
    \/ SessNext
    \/ PubNext
    \/ CliConstruct
    \/ CliDestroy
    \/ CliDtorSession
    \/ SubConstruct
    \/ SubStartPool
    \/ \E w \in Workers : SubWorkerPull(w)
    \/ SubDestroy
    \/ SubDtorCallback
    \/ SubDtorPool
    \/ SubDtorFifo
    \/ SubDtorHandle
    \/ SubDtorSession
    \/ RpcConstruct
    \/ RpcStartPool
    \/ \E w \in Workers : RpcWorkerPull(w)
    \/ RpcDestroy
    \/ RpcDtorUndeclare
    \/ RpcDtorCallback
    \/ RpcDtorPool
    \/ RpcDtorFifo
    \/ RpcDtorSession
LifeSpec == LifeInit /\ [][LifeNext]_vars

\* The Subscriber under the scheduling the code relies on: started threads
\* keep running, and (the assumption of the delivery guarantee) every user
\* callback invocation returns.
SubFairness ==
    /\ WF_vars(SubStartPool)
    /\ \A w \in Workers : /\ WF_vars(SubWorkerPull(w))
                          /\ WF_vars(SubWorkerInvoke(w))
                          /\ WF_vars(SubCallbackReturn(w))
\* The Subscriber from construction on, for as long as it is not destroyed.
SubRunNext ==
    \/ SessionOpen /\ UNCHANGED <<crashed, subVars, rpcVars, pubVars, cliVars, backendVars>>
    \/ SubConstruct
    \/ SubStartPool
    \/ SubHandler
    \/ \E w \in Workers : SubWorkerPull(w)
    \/ \E w \in Workers : SubWorkerInvoke(w)
    \/ \E w \in Workers : SubCallbackReturn(w)
FairSubSpec == SubSpecInit /\ [][SubRunNext]_vars /\ SubFairness

\* The scheduling the termination of a destruction relies on: started
\* threads keep running, every user callback invocation returns, and the
\* thread running a destructor goes on to its next step whenever it can.
RpcFairness ==
    /\ WF_vars(RpcStartPool)
    /\ \A w \in Workers : /\ WF_vars(RpcWorkerPull(w))
                          /\ WF_vars(RpcWorkerInvoke(w))
                          /\ WF_vars(RpcCallbackReturn(w))
                          /\ WF_vars(RpcWorkerReply(w))
                          /\ WF_vars(RpcWorkerRelease(w))
DtorFairness ==
    /\ WF_vars(SubDtorCallback) /\ WF_vars(SubDtorPool) /\ WF_vars(SubDtorFifo)
    /\ WF_vars(SubDtorHandle) /\ WF_vars(SubDtorSession)
    /\ WF_vars(RpcDtorUndeclare) /\ WF_vars(RpcDtorCallback) /\ WF_vars(RpcDtorPool)
    /\ WF_vars(RpcDtorFifo) /\ WF_vars(RpcDtorSession)
\* The hand-off program under that scheduling, destruction included.
FairDtorSpec == HandoffInit /\ [][HandoffNext]_vars
                /\ SubFairness /\ RpcFairness /\ DtorFairness

\* ================================================================ claims

SubAlive == subPc \in {"ctor_pool", "live"}
RpcAlive == rpcPc \in {"ctor_pool", "live"}

\* The attributes a sample, query or reply carries: the attachment's
\* "attributes" entry, empty when there is none.
AttributesOf(x) ==
    IF x.attachment.present /\ "attributes" \in x.attachment.keys
      THEN x.attachment.map.attributes ELSE ""

\* Where event id of the Subscriber currently is: in the queue, or held by a worker.
SubInQueue(id) == { i \in DOMAIN subFifo : subFifo[i].id = id }
SubHolders(id) == { w \in Workers : subW[w].ev.id = id }

\* C1: whatever the interleaving of the handler and the N workers, each event
\* the handler pushed is pulled by at most one worker and the user callback
\* is invoked at most once for it; every pulled event and every invocation
\* belongs to a sample the handler really received (no duplicate, no
\* invented event).
C1_NoDuplicateNoInvented ==
    \A id \in SampleIds :
      /\ Len(subCalls[id]) <= 1
      /\ Cardinality(SubInQueue(id)) + Cardinality(SubHolders(id)) <= 1
      /\ (SubInQueue(id) # {} \/ \E w \in SubHolders(id) : subW[w].pc = "got")
            => subCalls[id] = <<>>
      /\ (SubInQueue(id) # {} \/ SubHolders(id) # {} \/ subCalls[id] # <<>>)
            => id <= Len(subSamples)
      /\ subCalls[id] # <<>> =>
            /\ subCalls[id][1].source = subSamples[id].keyexpr
            /\ subCalls[id][1].message.payload = subSamples[id].payload

\* C1 witness: two workers are inside the callback at once, for two
\* different events, while a third event waits in the queue.
C1_Witness ==
    /\ \E w1, w2 \in Workers :
         /\ w1 # w2
         /\ subW[w1].pc = "call" /\ subW[w2].pc = "call"
         /\ subW[w1].ev.id # subW[w2].ev.id
    /\ subFifo # <<>>

SubDelivered(id) == id <= Len(subSamples) /\ SubAlive

SubCalledWith(id) ==
    /\ id <= Len(subSamples)
    /\ subCalls[id] # <<>>
    /\ subCalls[id][1] = [ source |-> subSamples[id].keyexpr,
                           listening |-> ListeningTopic,
                           message |-> Message(subSamples[id].payload,
                                               AttributesOf(subSamples[id])) ]

\* C2: under fair scheduling with returning callbacks, every sample handed
\* to the handler of a live Subscriber leads to a callback invocation with
\* the sample's source topic, the subscribed topic, and the sample's payload
\* and attributes (the Subscriber is not destroyed in this specification).
C2_EventuallyDelivered ==
    \A id \in SampleIds : SubDelivered(id) ~> SubCalledWith(id)

\* C2 witness: a live Subscriber whose callback was invoked with the right
\* arguments for a sample with attributes and for one without.
C2_Witness ==
    /\ subPc = "live"
    /\ \E i, j \in SampleIds :
         /\ SubCalledWith(i) /\ SubCalledWith(j)
         /\ AttributesOf(subSamples[i]) # ""
         /\ AttributesOf(subSamples[j]) = ""

RpcHolders(id) == { w \in Workers : rpcW[w].ev.id = id }

\* C3: for every query a worker processes, a callback that returned a reply
\* leads to exactly one replyToQuery, on that query's own handle and with
\* exactly the callback's payload and attributes; a callback that returned
\* nothing leads to none.
C3_ReplyExactlyOnce ==
    \A id \in QueryIds :
      LET rets == rpcReturned[id]
          reps == rpcReplies[id] IN
      /\ Len(reps) <= 1
      /\ reps # <<>> =>
            /\ rets # <<>> /\ rets[1].has
            /\ reps[1].handle = id
            /\ reps[1].payload = rets[1].message.payload
            /\ AttributesOf(reps[1]) = rets[1].message.attributes
      /\ (rets # <<>> /\ ~rets[1].has) => reps = <<>>
      /\ (rets # <<>> /\ rets[1].has /\ ~\E w \in RpcHolders(id) : rpcW[w].pc = "reply")
            => Len(reps) = 1

\* C3 witness: one query was answered and another was processed to the end
\* with a callback that returned nothing.
C3_Witness ==
    \E i, j \in QueryIds :
      /\ rpcReplies[i] # <<>>
      /\ rpcReturned[j] # <<>> /\ ~rpcReturned[j][1].has
      /\ RpcHolders(j) = {}

\* C4: every query handle the handler cloned is released exactly once: never
\* more often than it was cloned, and, once the RpcServer is destroyed, as
\* often as it was cloned, whether it was answered, not answered, answered
\* with a failing send, or still queued at shutdown.
C4_HandleReleasedOnce ==
    \A id \in QueryIds :
      /\ rpcClones[id] <= 1
      /\ rpcDrops[id] <= rpcClones[id]
      /\ rpcPc = "gone" => rpcDrops[id] = rpcClones[id]

\* C4 witness: a destroyed RpcServer that had a query whose reply send
\* failed and a query that was still queued when the queue was shut down.
C4_Witness ==
    /\ rpcPc = "gone"
    /\ \E i, j \in QueryIds :
         /\ rpcReplies[i] # <<>> /\ rpcReplies[i][1].rc # 0
         /\ rpcClones[j] = 1 /\ rpcCalls[j] = <<>>

\* C5: whenever replyToQuery fails for a reply the callback returned, a
\* processing error is reported for that event.
C5_ReplyFailureSurfaced ==
    \A id \in QueryIds :
      (rpcReplies[id] # <<>> /\ rpcReplies[id][1].rc # 0) => id \in rpcErrors

CliFinished == cliPc \in {"returned", "threw"}

\* C6: a call whose reply channel closed without yielding any reply fails
\* (with the timeout error); it never returns a result.
C6_NoReplyIsTimeout ==
    (CliFinished /\ cliResult.taken = 0) => cliResult.kind = "throw"

OkIndexes(plan) == { i \in DOMAIN plan : plan[i].ok }
FirstOk(plan) == plan[CHOOSE i \in OkIndexes(plan) : \A j \in OkIndexes(plan) : i <= j]

ResultsOf(reply) ==
    [ topic |-> reply.keyexpr, message |-> Message(reply.payload, AttributesOf(reply)) ]

\* C7, as stated: whenever the channel's reply sequence contains a
\* successful reply, the call returns the first successful reply's topic,
\* payload and attributes, whatever other replies precede or follow it.
C7_FirstSuccessfulWins ==
    (CliFinished /\ OkIndexes(cliPlan) # {}) =>
        /\ cliResult.kind = "return"
        /\ cliResult.results = ResultsOf(FirstOk(cliPlan))

\* C7, amended: when the first reply the channel yields is successful, the
\* call returns its topic, payload and attributes unchanged and receives no
\* further reply; when the first reply is an error reply, the call fails,
\* even if a successful reply follows.
C7_FirstReplyDecides ==
    (CliFinished /\ cliPlan # <<>>) =>
        IF cliPlan[1].ok
          THEN /\ cliResult.kind = "return"
               /\ cliResult.results = ResultsOf(cliPlan[1])
               /\ cliTaken = 1
          ELSE cliResult.kind = "throw"

\* C7 witness: the call returned the first of two successful replies that
\* were both on the channel already.
C7_Witness ==
    /\ cliPc = "returned"
    /\ Len(cliPlan) = 2 /\ cliSent = 2
    /\ cliPlan[1].ok /\ cliPlan[2].ok /\ cliPlan[1] # cliPlan[2]
    /\ cliResult.results = ResultsOf(cliPlan[1])

PubExists == pubPc \in {"live", "d_session"}
SubExists == subPc \in {"ctor_pool", "live", "d_callback", "d_pool", "d_fifo",
                        "d_handle", "d_session"}
CliExists == cliPc \in {"pending", "returned", "threw", "d_session"}
RpcExists == rpcPc \in {"ctor_pool", "live", "d_undeclare", "d_callback", "d_pool",
                        "d_fifo", "d_session"}

\* C8: the session's backend connection is open in every state in which a
\* Publisher, Subscriber, RpcClient or RpcServer built from it exists or
\* still holds a backend handle; it closes only after their teardown.
C8_SessionOutlivesChildren ==
    (\/ PubExists \/ pubDeclared
     \/ SubExists \/ subDeclared
     \/ CliExists \/ cliChannel
     \/ RpcExists \/ rpcDeclared) => sessConn = "open"

\* C8 witness: the application already released its own reference while a
\* Subscriber is about to undeclare and a Publisher still exists.
C8_Witness ==
    /\ ~userHolds
    /\ subPc = "d_handle" /\ subDeclared
    /\ pubDeclared
    /\ sessConn = "open"

\* C9: while a Subscriber or RpcServer is live, the delivery-thread handler
\* can always run to completion for the next sample or query, whatever the
\* workers are doing and however many items are queued.
C9_HandlerNeverBlocked ==
    /\ (SubAlive /\ Len(subSamples) < MaxSamples) => ENABLED SubHandler
    /\ (RpcAlive /\ ~crashed /\ Len(rpcQueries) < MaxQueries) => ENABLED RpcHandler

\* C9 witness: every worker is inside the user callback, the queue already
\* holds an item, and a further sample is still to be delivered.
C9_Witness ==
    /\ subPc = "live"
    /\ \A w \in Workers : subW[w].pc = "call"
    /\ subFifo # <<>>
    /\ Len(subSamples) < MaxSamples

\* C10: a query without attachment does not stop anything: after it the
\* process, and with it every worker and the queryable, is still running.
C10_BadQueryHarmless ==
    (\E i \in DOMAIN rpcQueries : ~rpcQueries[i].attachment.present) => ~crashed

\* C11: a query without attachment is rejected before the enqueue: no event
\* for it is in the queue or in a worker's hands, the user callback is not
\* invoked for it, and its handle is neither cloned nor dropped.
C11_NoAttachmentRejected ==
    \A id \in DOMAIN rpcQueries :
      ~AttachmentCheck(rpcQueries[id].attachment) =>
        /\ \A i \in DOMAIN rpcFifo : rpcFifo[i].id # id
        /\ RpcHolders(id) = {}
        /\ rpcCalls[id] = <<>>
        /\ rpcClones[id] = 0
        /\ rpcDrops[id] = 0

\* C11 witness: the process survived a query without attachment, and a
\* query delivered after it went through the callback.
C11_Witness ==
    /\ ~crashed
    /\ \E i, j \in DOMAIN rpcQueries :
         /\ i < j
         /\ ~AttachmentCheck(rpcQueries[i].attachment)
         /\ rpcCalls[j] # <<>>

\* C12: every send calls the backend's put exactly once, with the message's
\* payload and attributes; a send whose put the backend rejected ends in an
\* error to the caller, and a send whose put was accepted returns normally.
C12_SendFailureSurfaced ==
    \A i \in DOMAIN pubSends :
      LET s == pubSends[i] IN
      /\ Len(s.puts) = 1
      /\ s.puts[1].payload = s.message.payload
      /\ AttributesOf(s.puts[1]) = s.message.attributes
      /\ s.puts[1].rc # 0 => s.outcome = "threw"
      /\ s.puts[1].rc = 0 => s.outcome = "returned"

\* C12 witness: the same Publisher had one send rejected and, after it, one
\* send accepted.
C12_Witness ==
    /\ Len(pubSends) = 2
    /\ pubSends[1].puts[1].rc # 0 /\ pubSends[1].outcome = "threw"
    /\ pubSends[2].puts[1].rc = 0 /\ pubSends[2].outcome = "returned"

\* The backend answered the (only) declaration of this kind of child with a
\* failure.
DeclarationRejected(kind) ==
    declareCalls[kind] # <<>> /\ ~declareCalls[kind][1]

\* C13: a declaration the backend rejected makes the construction fail: the
\* constructor ends in an error, nothing is declared, no worker is started,
\* the callback is never invoked, and the declaration is not tried again.
C13_DeclarationRejected ==
    /\ \A kind \in {"pub", "sub", "rpc"} : Len(declareCalls[kind]) <= 1
    /\ DeclarationRejected("pub") =>
         /\ pubPc = "failed" /\ ~pubDeclared
         /\ pubSends = <<>>
    /\ DeclarationRejected("sub") =>
         /\ subPc = "failed" /\ ~subDeclared
         /\ \A w \in Workers : subW[w].pc = "idle"
         /\ subSamples = <<>>
         /\ \A id \in SampleIds : subCalls[id] = <<>>
    /\ DeclarationRejected("rpc") =>
         /\ rpcPc = "failed" /\ ~rpcDeclared
         /\ \A w \in Workers : rpcW[w].pc = "idle"
         /\ rpcQueries = <<>>
         /\ \A id \in QueryIds : rpcCalls[id] = <<>>

\* C13 witness: the RpcServer's declaration was rejected, the application
\* has dropped its session reference since, and the session is closed.
C13_Witness ==
    /\ DeclarationRejected("rpc")
    /\ rpcPc = "failed"
    /\ ~userHolds
    /\ sessConn = "closed"

\* The object was constructed and its destructor has begun.
SubInDestruction == subPc \in {"d_callback", "d_pool", "d_fifo", "d_handle",
                               "d_session", "gone"}
RpcInDestruction == rpcPc \in {"d_undeclare", "d_callback", "d_pool", "d_fifo",
                               "d_session", "gone"}

\* C14: in a Subscriber's destruction the queue is shut down first, the
\* workers are joined next, and the subscription is undeclared only after
\* that: whenever the subscription has been undeclared every worker thread
\* has exited, and whenever the pool has been joined the queue was shut down.
C14_SubDestructionOrder ==
    /\ SubInDestruction => subFifoState # "open"
    /\ subPc \in {"d_fifo", "d_handle", "d_session", "gone"} => ThreadPoolJoined(subW)
    /\ (SubInDestruction /\ ~subDeclared) =>
         /\ ThreadPoolJoined(subW)
         /\ subPc \in {"d_session", "gone"}

\* C14 witness: the subscription has just been undeclared, after workers
\* that had run callbacks were joined.
C14_Witness ==
    /\ subPc = "d_session" /\ ~subDeclared
    /\ ThreadPoolJoined(subW)
    /\ \E id \in SampleIds : subCalls[id] # <<>>

\* C15: in an RpcServer's destruction the queue is shut down first, the
\* workers are joined next, and the queryable is undeclared only after
\* that: whenever the queryable has been undeclared every worker thread has
\* exited.
C15_RpcDestructionOrder ==
    /\ RpcInDestruction => rpcFifoState # "open"
    /\ (RpcInDestruction /\ ~rpcDeclared) => ThreadPoolJoined(rpcW)

\* C16: a destruction shuts the queue down before the pool is joined, and
\* under fair scheduling with returning callbacks every destruction that
\* began runs to its end: all workers exit, the join returns, the object is
\* gone.
C16_DestructionTerminates ==
    /\ [](SubInDestruction => subFifoState # "open")
    /\ [](RpcInDestruction => rpcFifoState # "open")
    /\ SubInDestruction ~> (subPc = "gone")
    /\ RpcInDestruction ~> (rpcPc = "gone")

\* C17: the delivery handler never pushes into a destroyed queue: as long
\* as the backend registration is declared, so that the handler can still
\* run, the object's queue has not been destroyed.
C17_NoPushAfterQueueDestroyed ==
    /\ subDeclared => subFifoState # "destroyed"
    /\ rpcDeclared => rpcFifoState # "destroyed"

\* C18: no worker is about to invoke, or is inside, the user callback once
\* the callback object has been destroyed: the stored callback is alive
\* until every worker has exited.
C18_CallbackOutlivesWorkers ==
    /\ (SubInDestruction /\ ~subCallbackAlive) => ThreadPoolJoined(subW)
    /\ (RpcInDestruction /\ ~rpcCallbackAlive) => ThreadPoolJoined(rpcW)
    /\ \A w \in Workers :
         /\ subW[w].pc = "call" => subCallbackAlive
         /\ rpcW[w].pc = "call" => rpcCallbackAlive

\* C19: a worker never replies on a released handle: as long as a worker
\* holds an event, before, inside and after the callback and up to the end of
\* the reply, the event's cloned handle has not been dropped, and every
\* step that sends a reply or runs the callback leaves it undropped; the drop
\* comes after the callback's return and after the reply.
C19_NoReplyOnReleasedHandle ==
    /\ \A w \in Workers :
         rpcW[w].pc \in {"got", "call", "reply", "release"} =>
           /\ rpcClones[rpcW[w].ev.owned_query] = 1
           /\ rpcDrops[rpcW[w].ev.owned_query] = 0
    /\ \A id \in QueryIds :
         rpcDrops[id] > 0 =>
           /\ RpcHolders(id) = {}
           /\ rpcCalls[id] # <<>> => Len(rpcReturned[id]) = Len(rpcCalls[id])
           /\ (rpcReturned[id] # <<>> /\ rpcReturned[id][1].has) => rpcReplies[id] # <<>>

\* C19 witness: the RpcServer is being destroyed (callback and queryable
\* already gone) while a worker is about to reply on a handle it still
\* owns, and another query's handle was released after its reply.
C19_Witness ==
    /\ rpcPc = "d_pool"
    /\ \E w \in Workers :
         /\ rpcW[w].pc = "reply"
         /\ rpcDrops[rpcW[w].ev.owned_query] = 0
    /\ \E id \in QueryIds : rpcReplies[id] # <<>> /\ rpcDrops[id] = 1

\* C20: every attachment map created for a send, a query or a reply is
\* released by the end of that operation: between operations as many maps
\* have been dropped as were created.
C20_AttachmentMapsReleased ==
    mapsDropped = mapsNew

====
